---- MODULE Spec2Model ----
(***************************************************************************)
(* Model of the FusionAuth onboarding scripts.                             *)
(*   onboarding-scripts/user.py  : main, retrieve_groups,                  *)
(*                                 display_filterable_list, create_user    *)
(*   onboarding-scripts/group.py : main, get_roles, select_roles,          *)
(*                                 create_group                            *)
(* Strings are sequences of code points, so that str.lower(), str.strip(), *)
(* the substring test, chr() and int() are computed and not assumed.       *)
(* Python indices are 0-based: list element i is Seq element i + 1.        *)
(***************************************************************************)
EXTENDS Integers, Sequences, FiniteSets, TLC

VARIABLES
    pc,               \* position of the running script
    api_key,          \* whether FUSIONAUTH_API_KEY is set in the environment
    exit_status,      \* -1 while running, else the process exit status
    email,            \* main: email (after strip)
    first_name,       \* user.py main: first_name (after strip)
    last_name,        \* user.py main: last_name (after strip)
    groups,           \* user.py main: groups, the list given to the selector
    fetches,          \* number of GET /api/group requests sent
    search_text,      \* display_filterable_list: search_text
    current_row,      \* display_filterable_list: current_row
    filtered_options, \* display_filterable_list: filtered_options
    key,              \* display_filterable_list: key last read by getch (0: none)
    state,            \* selector: "IDLE", "ACTIVE", "selected", "cancelled", "raised"
    result,           \* value returned by the selector (None or an id)
    exception,        \* exception raised by the selector ("" if none)
    posts,            \* bodies of the POST requests sent, in order
    group_name,       \* group.py main: group_name (after strip)
    blockchain_address, \* group.py main: blockchain_address (after strip)
    roles,            \* group.py main: roles, as returned by get_roles
    selected_indices, \* group.py select_roles: the line typed by the operator
    selected_role_ids, \* group.py main: selected_role_ids
    group_id          \* main: group_id (user.py: the selection; group.py: typed)

vars == <<pc, api_key, exit_status, email, first_name, last_name, groups, fetches,
          search_text, current_row, filtered_options, key, state, result,
          exception, posts, group_name, blockchain_address, roles,
          selected_indices, selected_role_ids, group_id>>

userVars == <<first_name, last_name, groups, fetches, search_text, current_row,
              filtered_options, key, state, result, exception>>

selectorVars == <<search_text, current_row, filtered_options, key, state,
                  result, exception>>

groupVars == <<group_name, blockchain_address, roles, selected_indices,
               selected_role_ids>>

-----------------------------------------------------------------------------
(* Bounds of the model *)

MaxOptions == 3   \* longest group list returned by the server
MaxSearch == 3    \* longest search text typed
MaxInput == 3     \* longest line typed at the role prompt
MaxRoles == 2     \* longest role list returned by the server

-----------------------------------------------------------------------------
(* Key codes: curses constants and the literals of the key dispatch *)

KEY_UP == 259
KEY_DOWN == 258
KEY_BACKSPACE == 263
KEY_DEL == 127
KEY_ENTER == 343
KEY_LF == 10
KEY_CR == 13
KEY_ESC == 27
KEY_LEFT == 260

None == "None"

\* None, or a value, where both must be told apart from any list
NoValue == [none |-> TRUE, val |-> <<>>]
Some(v) == [none |-> FALSE, val |-> v]

\* Characters used by the inputs, as code points
ChSpace == 32
ChComma == 44
ChMinus == 45
Ch0 == 48
Ch1 == 49
Ch2 == 50
ChA == 97
ChX == 120
ChY == 121
ChZ == 122

-----------------------------------------------------------------------------
(* Python string operations *)

\* str.lower() on one code point: ASCII capitals, and U+0104 (chr(KEY_LEFT))
LowerChar(c) ==
    IF c \in 65..90 THEN c + 32
    ELSE IF c = 260 THEN 261
    ELSE c

\* str.lower()
Lower(s) == [i \in DOMAIN s |-> LowerChar(s[i])]

\* a in b, for strings
IsSubstring(a, b) ==
    \E i \in 0..(Len(b) - Len(a)) : SubSeq(b, i + 1, i + Len(a)) = a

\* chr(key): the one-character string of that code point
Chr(k) == <<k>>

\* s[:-1]
DropLast(s) == IF s = <<>> THEN <<>> ELSE SubSeq(s, 1, Len(s) - 1)

IsSpace(c) == c \in {9, 10, 11, 12, 13, 32}

RECURSIVE LStrip(_)
LStrip(s) ==
    IF s # <<>> /\ IsSpace(Head(s)) THEN LStrip(Tail(s)) ELSE s

RECURSIVE RStrip(_)
RStrip(s) ==
    IF s # <<>> /\ IsSpace(s[Len(s)]) THEN RStrip(DropLast(s)) ELSE s

\* str.strip()
Strip(s) == RStrip(LStrip(s))

-----------------------------------------------------------------------------
(* user.py: display_filterable_list *)

\* Mutant: the label is not lowered before the test
MatchesLabelAsIs(opt, s) == IsSubstring(Lower(s), opt.name)

\* search_text.lower() in opt['name'].lower()
Matches(opt, s) == IsSubstring(Lower(s), Lower(opt.name))

\* [opt for opt in options if search_text.lower() in opt['name'].lower()]
RECURSIVE FilterOptions(_, _)
FilterOptions(options, s) ==
    IF options = <<>> THEN <<>>
    ELSE IF Matches(Head(options), s)
         THEN <<Head(options)>> \o FilterOptions(Tail(options), s)
         ELSE FilterOptions(Tail(options), s)

\* (current_row - 1) % len(filtered_options)
RowUp(row, n) == (row - 1) % n

\* (current_row + 1) % len(filtered_options)
RowDown(row, n) == (row + 1) % n

\* Mutant: the first character is removed instead of the last
BackspaceDropsFirst(s) == IF s = <<>> THEN <<>> ELSE Tail(s)

\* search_text[:-1]
Backspace(s) == DropLast(s)

\* search_text += chr(key)
TypeChar(s, k) == s \o Chr(k)

\* Top of the while loop: the view is computed from the search text
Render(s) == FilterOptions(groups, s)

EnterKeys == {KEY_ENTER, KEY_LF, KEY_CR}
BackspaceKeys == {KEY_BACKSPACE, KEY_DEL}
CharKeys == {ChA, ChX, ChY, ChZ, KEY_LEFT}

\* The selector raises: the loop is left, curses.wrapper re-raises
Raise(k, exc) ==
    /\ key' = k
    /\ state' = "raised"
    /\ exception' = exc
    /\ UNCHANGED <<search_text, current_row, filtered_options, result>>

\* The loop goes round: the key is handled, the view is computed again
Continue(k, row, s) ==
    /\ key' = k
    /\ current_row' = row
    /\ search_text' = s
    /\ filtered_options' = Render(s)
    /\ UNCHANGED <<state, result, exception>>

\* The selector returns v
Return(k, st, v) ==
    /\ key' = k
    /\ state' = st
    /\ result' = v
    /\ UNCHANGED <<search_text, current_row, filtered_options, exception>>

KeyUp ==
    /\ pc = "selector" /\ state = "ACTIVE"
    /\ IF Len(filtered_options) = 0
       THEN Raise(KEY_UP, "ZeroDivisionError")
       ELSE Continue(KEY_UP, RowUp(current_row, Len(filtered_options)), search_text)
    /\ UNCHANGED <<pc, api_key, exit_status, email, first_name, last_name, groups,
                   fetches, posts, group_id, groupVars>>

KeyDown ==
    /\ pc = "selector" /\ state = "ACTIVE"
    /\ IF Len(filtered_options) = 0
       THEN Raise(KEY_DOWN, "ZeroDivisionError")
       ELSE Continue(KEY_DOWN, RowDown(current_row, Len(filtered_options)), search_text)
    /\ UNCHANGED <<pc, api_key, exit_status, email, first_name, last_name, groups,
                   fetches, posts, group_id, groupVars>>

KeyBackspace ==
    /\ pc = "selector" /\ state = "ACTIVE"
    /\ \E k \in BackspaceKeys : Continue(k, current_row, Backspace(search_text))
    /\ UNCHANGED <<pc, api_key, exit_status, email, first_name, last_name, groups,
                   fetches, posts, group_id, groupVars>>

KeyEnter ==
    /\ pc = "selector" /\ state = "ACTIVE"
    /\ \E k \in EnterKeys :
         IF current_row < Len(filtered_options)
         THEN Return(k, "selected", filtered_options[current_row + 1].id)
         ELSE Raise(k, "IndexError")
    /\ UNCHANGED <<pc, api_key, exit_status, email, first_name, last_name, groups,
                   fetches, posts, group_id, groupVars>>

\* Mutant: no branch for key 27, which falls to the else branch
KeyEscapeAsText ==
    /\ pc = "selector" /\ state = "ACTIVE"
    /\ Len(search_text) < MaxSearch
    /\ Continue(KEY_ESC, current_row, TypeChar(search_text, KEY_ESC))
    /\ UNCHANGED <<pc, api_key, exit_status, email, first_name, last_name, groups,
                   fetches, posts, group_id, groupVars>>

KeyEscape ==
    /\ pc = "selector" /\ state = "ACTIVE"
    /\ Return(KEY_ESC, "cancelled", None)
    /\ UNCHANGED <<pc, api_key, exit_status, email, first_name, last_name, groups,
                   fetches, posts, group_id, groupVars>>

KeyOther ==
    /\ pc = "selector" /\ state = "ACTIVE"
    /\ Len(search_text) < MaxSearch
    /\ \E k \in CharKeys : Continue(k, current_row, TypeChar(search_text, k))
    /\ UNCHANGED <<pc, api_key, exit_status, email, first_name, last_name, groups,
                   fetches, posts, group_id, groupVars>>

-----------------------------------------------------------------------------
(* user.py: the script *)

\* Lines the operator may type at an input() prompt
InputLines == {<<>>, <<ChSpace>>, <<ChA>>, <<ChSpace, ChA, ChSpace>>}

\* Groups the server may hold
TeamA == [name |-> <<84, 101, 97, 109, 32, 65>>, id |-> "1"]
TeamB == [name |-> <<84, 101, 97, 109, 32, 66>>, id |-> "2"]
Alpha == [name |-> <<65, 108, 112, 104, 97>>, id |-> "3"]
GroupX == [name |-> <<88>>, id |-> "4"]
GroupPool == {TeamA, TeamB, Alpha, GroupX}

\* Lists of distinct elements of S, of length at most n
ListsOf(S, n) ==
    UNION {{l \in [1..m -> S] : \A i, j \in 1..m : i # j => l[i] # l[j]} : m \in 0..n}

GroupLists == ListsOf(GroupPool, MaxOptions)

\* Python truth value of None and of a string
Falsy(v) == v = None \/ v = ""

\* sys.exit(1)
Exit1 == pc' = "exit" /\ exit_status' = 1

\* Lines 12-14: the API key is read from the environment when the module loads
LoadUser ==
    /\ pc = "load"
    /\ IF ~api_key THEN Exit1 ELSE pc' = "main" /\ UNCHANGED exit_status
    /\ UNCHANGED <<api_key, email, posts, group_id, userVars, groupVars>>

\* main, lines 145-151: the three prompts and the non-empty check
MainInputs ==
    /\ pc = "main"
    /\ \E e \in InputLines, f \in InputLines, l \in InputLines :
         /\ email' = Strip(e)
         /\ first_name' = Strip(f)
         /\ last_name' = Strip(l)
         /\ IF Strip(e) = <<>> \/ Strip(f) = <<>> \/ Strip(l) = <<>>
            THEN Exit1
            ELSE pc' = "retrieve" /\ UNCHANGED exit_status
    /\ UNCHANGED <<api_key, posts, group_id, groups, fetches, selectorVars, groupVars>>

FetchOutcomes == {"ok", "status", "exception"}

\* retrieve_groups: a non-200 status or an exception gives [], else the list
RetrieveGroups ==
    /\ pc = "retrieve"
    /\ fetches' = fetches + 1
    /\ \E outcome \in FetchOutcomes :
         IF outcome = "ok"
         THEN \E g \in GroupLists : groups' = g
         ELSE groups' = <<>>
    /\ pc' = "check_groups"
    /\ UNCHANGED <<api_key, exit_status, email, first_name, last_name, posts,
                   group_id, selectorVars, groupVars>>

\* Mutant: the selector starts whatever the list
CheckGroupsUnguarded ==
    /\ pc = "check_groups"
    /\ pc' = "selector"
    /\ state' = "ACTIVE"
    /\ current_row' = 0
    /\ search_text' = <<>>
    /\ filtered_options' = FilterOptions(groups, <<>>)
    /\ UNCHANGED <<exit_status, key, result, exception>>
    /\ UNCHANGED <<api_key, email, first_name, last_name, groups, fetches, posts,
                   group_id, groupVars>>

\* main, lines 154-159: no groups ends the script, else the selector starts
\* (lines 43-51: cursor 0, empty search text, first view)
CheckGroups ==
    /\ pc = "check_groups"
    /\ IF groups = <<>>
       THEN Exit1 /\ UNCHANGED selectorVars
       ELSE /\ pc' = "selector"
            /\ state' = "ACTIVE"
            /\ current_row' = 0
            /\ search_text' = <<>>
            /\ filtered_options' = Render(<<>>)
            /\ UNCHANGED <<exit_status, key, result, exception>>
    /\ UNCHANGED <<api_key, email, first_name, last_name, groups, fetches, posts,
                   group_id, groupVars>>

\* main, lines 159-162 and 172-176: the selector has returned or raised
SelectorExit ==
    /\ pc = "selector"
    /\ state \in {"selected", "cancelled", "raised"}
    /\ IF state = "raised"
       THEN Exit1 /\ UNCHANGED group_id
       ELSE /\ group_id' = result
            /\ IF Falsy(result) THEN Exit1
               ELSE pc' = "create" /\ UNCHANGED exit_status
    /\ UNCHANGED <<api_key, email, posts, userVars, groupVars>>

\* create_user and the end of main: one POST, whatever the answer
CreateUser ==
    /\ pc = "create"
    /\ posts' = Append(posts, [url |-> "/api/user/registration/",
                               email |-> email, firstName |-> first_name,
                               lastName |-> last_name, groupId |-> group_id])
    /\ pc' = "done"
    /\ exit_status' = 0
    /\ UNCHANGED <<api_key, email, group_id, userVars, groupVars>>

InitUser ==
    /\ pc = "load"
    /\ api_key \in BOOLEAN
    /\ exit_status = -1
    /\ email = <<>> /\ first_name = <<>> /\ last_name = <<>>
    /\ groups = <<>>
    /\ fetches = 0
    /\ search_text = <<>> /\ current_row = 0 /\ filtered_options = <<>>
    /\ key = 0
    /\ state = "IDLE"
    /\ result = None
    /\ exception = ""
    /\ posts = <<>>
    /\ group_id = None
    /\ group_name = <<>> /\ blockchain_address = <<>>
    /\ roles = NoValue
    /\ selected_indices = <<>>
    /\ selected_role_ids = <<>>

Init == InitUser

Next ==
    \/ LoadUser
    \/ MainInputs
    \/ RetrieveGroups
    \/ CheckGroups
    \/ KeyUp
    \/ KeyDown
    \/ KeyBackspace
    \/ KeyEnter
    \/ KeyEscape
    \/ KeyOther
    \/ SelectorExit
    \/ CreateUser

Spec == Init /\ [][Next]_vars

-----------------------------------------------------------------------------
(* group.py: select_roles *)

\* str.split(sep): the pieces between the separators, at least one
RECURSIVE Split(_, _)
Split(s, sep) ==
    IF \A i \in DOMAIN s : s[i] # sep THEN <<s>>
    ELSE LET i == CHOOSE j \in DOMAIN s :
                      s[j] = sep /\ \A k \in 1..(j - 1) : s[k] # sep
         IN <<SubSeq(s, 1, i - 1)>> \o Split(SubSeq(s, i + 1, Len(s)), sep)

IsDigit(c) == c \in 48..57

\* Value of a string of decimal digits
RECURSIVE DigitsValue(_)
DigitsValue(d) ==
    IF d = <<>> THEN 0 ELSE 10 * DigitsValue(DropLast(d)) + (d[Len(d)] - 48)

\* int(s): blanks around, an optional sign, then digits; else ValueError
ParseInt(s) ==
    LET t == Strip(s)
        signed == t # <<>> /\ Head(t) \in {43, ChMinus}
        d == IF signed THEN Tail(t) ELSE t
    IN IF d # <<>> /\ \A i \in DOMAIN d : IsDigit(d[i])
       THEN [ok |-> TRUE,
             val |-> IF signed /\ Head(t) = ChMinus
                     THEN 0 - DigitsValue(d) ELSE DigitsValue(d)]
       ELSE [ok |-> FALSE, val |-> 0]

\* [int(index.strip()) - 1 for index in selected_indices.split(",")]
ParseIndices(line) ==
    LET toks == Split(line, ChComma)
    IN [i \in DOMAIN toks |-> LET r == ParseInt(Strip(toks[i]))
                              IN [ok |-> r.ok, val |-> r.val - 1]]

\* Mutant: the lower bound is not checked
BadIndexNoLowerBound(index, n) == index >= n

\* index < 0 or index >= len(roles)
BadIndex(index, n) == index < 0 \/ index >= n

\* l[i] is defined for -len(l) <= i < len(l), and raises IndexError otherwise
InRange(l, i) == 0 - Len(l) <= i /\ i < Len(l)

\* l[i], a negative i counting from the end
PyIndex(l, i) == IF i < 0 THEN l[Len(l) + i + 1] ELSE l[i + 1]

\* select_roles: the role ids chosen by the line typed. A ValueError (a token
\* that is no integer, an index the check refuses) ends the script in
\* select_roles, an IndexError in main's handler: both with status 1.
SelectRoles(rs, line) ==
    LET idx == ParseIndices(line)
    IN IF \E i \in DOMAIN idx : ~idx[i].ok
       THEN [ok |-> FALSE, ids |-> <<>>]
       ELSE IF \E i \in DOMAIN idx : BadIndex(idx[i].val, Len(rs))
       THEN [ok |-> FALSE, ids |-> <<>>]
       ELSE IF \E i \in DOMAIN idx : ~InRange(rs, idx[i].val)
       THEN [ok |-> FALSE, ids |-> <<>>]
       ELSE [ok |-> TRUE, ids |-> [i \in DOMAIN idx |-> PyIndex(rs, idx[i].val).id]]

-----------------------------------------------------------------------------
(* group.py: the script *)

RoleAdmin == [name |-> "admin", id |-> "r1"]
RoleUser == [name |-> "user", id |-> "r2"]
RoleGuest == [name |-> "guest", id |-> "r3"]
RolePool == {RoleAdmin, RoleUser, RoleGuest}
RoleLists == ListsOf(RolePool, MaxRoles)

RoleChars == {Ch0, Ch1, Ch2, ChComma, ChSpace, ChMinus, ChX}
RoleLines == UNION {[1..m -> RoleChars] : m \in 0..MaxInput}

\* Lines 11-13
LoadGroup ==
    /\ pc = "g_load"
    /\ IF ~api_key THEN Exit1 ELSE pc' = "g_main" /\ UNCHANGED exit_status
    /\ UNCHANGED <<api_key, email, posts, group_id, userVars, groupVars>>

\* main, lines 124-141: four prompts, the first three checked in turn
GroupInputs ==
    /\ pc = "g_main"
    /\ \E n \in InputLines, b \in InputLines, e \in InputLines, g \in InputLines :
         /\ group_name' = Strip(n)
         /\ blockchain_address' = IF Strip(n) = <<>> THEN <<>> ELSE Strip(b)
         /\ email' = IF Strip(n) = <<>> \/ Strip(b) = <<>> THEN <<>> ELSE Strip(e)
         /\ IF Strip(n) = <<>> \/ Strip(b) = <<>> \/ Strip(e) = <<>>
            THEN Exit1 /\ UNCHANGED group_id
            ELSE /\ group_id' = IF Strip(g) = <<>> THEN NoValue ELSE Some(Strip(g))
                 /\ pc' = "g_roles"
                 /\ UNCHANGED exit_status
    /\ UNCHANGED <<api_key, posts, userVars, roles, selected_indices,
                   selected_role_ids>>

\* get_roles and main, lines 143-146: None on failure, else the role list
GetRoles ==
    /\ pc = "g_roles"
    /\ \E outcome \in FetchOutcomes :
         IF outcome = "ok"
         THEN \E r \in RoleLists : roles' = Some(r)
         ELSE roles' = NoValue
    /\ IF roles'.none \/ roles'.val = <<>>
       THEN Exit1
       ELSE pc' = "g_select" /\ UNCHANGED exit_status
    /\ UNCHANGED <<api_key, email, posts, group_id, userVars, group_name,
                   blockchain_address, selected_indices, selected_role_ids>>

\* select_roles and main, lines 148-151
ChooseRoles ==
    /\ pc = "g_select"
    /\ \E line \in RoleLines :
         /\ selected_indices' = line
         /\ LET r == SelectRoles(roles.val, line)
            IN IF ~r.ok
               THEN Exit1 /\ UNCHANGED selected_role_ids
               ELSE /\ selected_role_ids' = r.ids
                    /\ IF r.ids = <<>> THEN Exit1
                       ELSE pc' = "g_create" /\ UNCHANGED exit_status
    /\ UNCHANGED <<api_key, email, posts, group_id, userVars, group_name,
                   blockchain_address, roles>>

\* create_group and the end of main: one POST, whatever the answer
CreateGroup ==
    /\ pc = "g_create"
    /\ posts' = Append(posts,
           [url |-> IF group_id.none THEN <<"/api/group">>
                    ELSE <<"/api/group/", group_id.val>>,
            name |-> group_name, blockchainAddress |-> blockchain_address,
            email |-> email, roleIds |-> selected_role_ids])
    /\ pc' = "done"
    /\ exit_status' = 0
    /\ UNCHANGED <<api_key, email, group_id, userVars, groupVars>>

InitGroup ==
    /\ pc = "g_load"
    /\ api_key \in BOOLEAN
    /\ exit_status = -1
    /\ email = <<>> /\ first_name = <<>> /\ last_name = <<>>
    /\ groups = <<>>
    /\ fetches = 0
    /\ search_text = <<>> /\ current_row = 0 /\ filtered_options = <<>>
    /\ key = 0
    /\ state = "IDLE"
    /\ result = None
    /\ exception = ""
    /\ posts = <<>>
    /\ group_id = NoValue
    /\ group_name = <<>> /\ blockchain_address = <<>>
    /\ roles = NoValue
    /\ selected_indices = <<>>
    /\ selected_role_ids = <<>>

NextGroup ==
    \/ LoadGroup
    \/ GroupInputs
    \/ GetRoles
    \/ ChooseRoles
    \/ CreateGroup

SpecGroup == InitGroup /\ [][NextGroup]_vars

-----------------------------------------------------------------------------
(* Claims about the selector (user.py, display_filterable_list) *)

ViewLen == Len(filtered_options)

\* A step of the selector loop that handles key k
KeyStep(k) == pc = "selector" /\ state = "ACTIVE" /\ key' = k

\* C1: whenever the selector is active and the filtered view is non-empty,
\* the cursor is an index of the view: 0 <= current_row < len(view).
C1_CursorInRange ==
    (state = "ACTIVE" /\ filtered_options # <<>>)
        => (0 <= current_row /\ current_row < ViewLen)

\* C2: Enter on an empty filtered view is a no-op: no result, the selector
\* stays ACTIVE, search text and cursor are unchanged.
C2_EnterOnEmptyViewIsNoOp ==
    [][(filtered_options = <<>> /\ \E k \in EnterKeys : KeyStep(k))
          => /\ state' = "ACTIVE"
             /\ result' = result
             /\ exception' = exception
             /\ search_text' = search_text
             /\ current_row' = current_row]_vars

\* C3: the selector leaves ACTIVE only by Enter on a non-empty view (selected)
\* or by Escape (cancelled); every other key event keeps it ACTIVE.
C3_TerminatesOnlyByEnterOrEscape ==
    [][(pc = "selector" /\ state = "ACTIVE" /\ state' # "ACTIVE")
          => \/ key' \in EnterKeys /\ filtered_options # <<>> /\ state' = "selected"
             \/ key' = KEY_ESC /\ state' = "cancelled"]_vars

\* Case-insensitive containment, character by character
ContainsIgnoringCase(label, s) ==
    \E off \in 0..(Len(label) - Len(s)) :
        \A j \in 1..Len(s) : LowerChar(label[off + j]) = LowerChar(s[j])

\* The positions of L whose label contains s
MatchingPositions(L, s) == {i \in 1..Len(L) : ContainsIgnoringCase(L[i].name, s)}

\* The k-th smallest element of a set of positions
KthPosition(P, k) == CHOOSE i \in P : Cardinality({j \in P : j <= i}) = k

\* C4: at every iteration the filtered view is exactly the options of the list
\* whose label contains the search text ignoring case, in the order of the
\* list; the empty search text gives the whole list.
C4_FilteredViewIsMatchingSubsequence ==
    state # "IDLE" =>
        LET P == MatchingPositions(groups, search_text)
        IN /\ ViewLen = Cardinality(P)
           /\ \A k \in 1..ViewLen : filtered_options[k] = groups[KthPosition(P, k)]
           /\ (search_text = <<>> => filtered_options = groups)

C4_Witness ==
    /\ state = "ACTIVE"
    /\ groups = <<TeamA, GroupX, Alpha>>
    /\ search_text = <<ChA>>
    /\ key = ChA
    /\ filtered_options = <<TeamA, Alpha>>

\* C5: Enter on a non-empty filtered view terminates the selector and returns
\* the id of the option at the cursor in the current view.
C5_EnterReturnsIdAtCursor ==
    [][(filtered_options # <<>> /\ \E k \in EnterKeys : KeyStep(k))
          => /\ state' = "selected"
             /\ current_row \in 0..(ViewLen - 1)
             /\ result' = filtered_options[current_row + 1].id]_vars

\* RowDown applied k times
RECURSIVE DownTimes(_, _, _)
DownTimes(k, row, n) == IF k = 0 THEN row ELSE DownTimes(k - 1, RowDown(row, n), n)

\* C6: on a view of length n > 0 with cursor c, down moves to the next index
\* and wraps to 0 after the last, up moves to the previous index and wraps to
\* n - 1 from 0, n times down returns to c, up then down returns to c, and the
\* navigation keys leave the search text unchanged.
C6_NavigationWraps ==
    [][(pc = "selector" /\ state = "ACTIVE" /\ ViewLen > 0)
          => /\ DownTimes(ViewLen, current_row, ViewLen) = current_row
             /\ RowDown(RowUp(current_row, ViewLen), ViewLen) = current_row
             /\ key' = KEY_DOWN =>
                   /\ current_row' = IF current_row = ViewLen - 1 THEN 0
                                     ELSE current_row + 1
                   /\ search_text' = search_text
             /\ key' = KEY_UP =>
                   /\ current_row' = IF current_row = 0 THEN ViewLen - 1
                                     ELSE current_row - 1
                   /\ search_text' = search_text]_vars

\* C7: a backspace key removes exactly the last character of the search text
\* (nothing when it is empty), any other character key appends exactly its
\* character, and neither leaves the ACTIVE state, whatever the new view.
C7_TextEditing ==
    [][(pc = "selector" /\ state = "ACTIVE")
          => /\ key' \in BackspaceKeys =>
                   /\ state' = "ACTIVE"
                   /\ IF search_text = <<>> THEN search_text' = <<>>
                      ELSE /\ Len(search_text') = Len(search_text) - 1
                           /\ \A i \in 1..Len(search_text') :
                                 search_text'[i] = search_text[i]
             /\ key' \in CharKeys =>
                   /\ state' = "ACTIVE"
                   /\ search_text' = Append(search_text, key')]_vars

C7_Witness ==
    /\ state = "ACTIVE"
    /\ groups = <<GroupX>>
    /\ key \in BackspaceKeys
    /\ search_text = <<ChX>>
    /\ filtered_options = <<GroupX>>

\* The identifiers of the options given to the selector
OptionIds == {groups[i].id : i \in 1..Len(groups)}

\* C8: from every ACTIVE state Escape can be pressed and ends the selector at
\* once with None, which is no option identifier; after a cancellation the
\* caller sends no user-creation request and exits with status 1.
C8_EscapeCancels ==
    /\ [](state = "ACTIVE" => ENABLED KeyEscape)
    /\ [][KeyStep(KEY_ESC)
             => /\ state' = "cancelled"
                /\ result' = None
                /\ result' \notin OptionIds]_vars
    /\ [](state = "cancelled"
             => /\ posts = <<>>
                /\ pc \in {"selector", "exit"}
                /\ pc = "exit" => exit_status = 1)

C8_Witness ==
    /\ state = "cancelled"
    /\ pc = "exit"
    /\ search_text = <<ChZ>>
    /\ filtered_options = <<>>
    /\ current_row = 1

-----------------------------------------------------------------------------
(* Claims about the scripts *)

\* C9: the selector runs, and a user is created, only after one fetch that
\* gave a non-empty list; a failed or empty fetch ends the script with status
\* 1, the selector never started and nothing posted; the list is fetched once
\* and never changed after the fetch.
C9_SelectorOnlyAfterFetch ==
    /\ [](/\ fetches <= 1
          /\ (state # "IDLE" \/ posts # <<>>) => (fetches = 1 /\ groups # <<>>)
          /\ (fetches = 1 /\ groups = <<>> /\ pc # "check_groups")
                => /\ pc = "exit" /\ exit_status = 1
                   /\ state = "IDLE" /\ posts = <<>>)
    /\ [][fetches = 1 => (groups' = groups /\ fetches' = fetches)]_vars

C9_Witness ==
    /\ fetches = 1
    /\ groups = <<>>
    /\ pc = "exit"
    /\ exit_status = 1

\* The tokens typed at the role prompt
TypedTokens == Split(selected_indices, ChComma)

\* Token tok is a numeral of the 1-based index n
IsNumeralOf(tok, n) == ParseInt(tok) = [ok |-> TRUE, val |-> n]

\* Some token typed is no integer, or an integer outside 1..len(roles)
SomeTokenInvalid ==
    \E i \in DOMAIN TypedTokens :
        ~\E n \in 1..Len(roles.val) : IsNumeralOf(TypedTokens[i], n)

\* C10: at most one create-group request is sent, and only after name, address
\* and email were non-empty, the role fetch gave a non-empty list and the role
\* selection succeeded; the role ids sent are those of the fetched roles at the
\* 1-based indices typed, in the order typed; a token that is no integer or is
\* out of range ends the script with status 1 and no request.
C10_CreateGroupOnlyAfterChecks ==
    /\ Len(posts) <= 1
    /\ posts # <<>> =>
          /\ group_name # <<>> /\ blockchain_address # <<>> /\ email # <<>>
          /\ ~roles.none /\ roles.val # <<>>
          /\ pc = "done"
          /\ Len(posts[1].roleIds) = Len(TypedTokens)
          /\ \A i \in DOMAIN TypedTokens :
                \E n \in 1..Len(roles.val) :
                    /\ IsNumeralOf(TypedTokens[i], n)
                    /\ posts[1].roleIds[i] = roles.val[n].id
    /\ (pc \in {"g_create", "done", "exit"} /\ SomeTokenInvalid)
          => (posts = <<>> /\ pc = "exit" /\ exit_status = 1)

C10_Witness ==
    /\ pc = "done"
    /\ roles = Some(<<RoleAdmin, RoleUser>>)
    /\ selected_indices = <<Ch2, ChComma, Ch1>>
    /\ posts # <<>>
    /\ posts[1].roleIds = <<"r2", "r1">>

====
